---- MODULE Spec2Model ----
(***************************************************************************)
(* Model of DataStructuresCpp/LinkedList.cpp: a singly linked list of int  *)
(* nodes with a head pointer and a length counter.  The heap is a finite   *)
(* pool of node addresses; a pointer is a node address or NULL.            *)
(*                                                                         *)
(* A dereference of nullptr is undefined behaviour.  It is modelled as a   *)
(* choice between the two things a build does with it: the process        *)
(* is killed at the faulting access ("segv", memory as it was at that      *)
(* point), or the access goes through, a read yielding an arbitrary        *)
(* pointer and a write being lost ("garbage").  Either way the run ends    *)
(* there: nothing is known about a program after undefined behaviour.      *)
(***************************************************************************)
EXTENDS Integers, Sequences, FiniteSets, TLC

\* ---- bounds ----
MaxNodes == 3
MaxCount == 4

NULL == 0
Nodes == 1..MaxNodes
Ptr == Nodes \cup {NULL}
Data == {7, 9}
Indices == (-1)..(MaxNodes + 2)
Fuel == MaxNodes + 1

\* head, length: the fields of the LinkedList object
\* next, data:   the fields of every Node; alloc: the nodes that are live
\* op:           the last call made, its arguments and how it ended
\* pre:          the list and node memory as they were when that call began
\* valid:        every call so far had its index within the documented range
\* twice:        set when the last two calls were both Reverse, with the
\*               elements and length from before the first of the two
VARIABLES head, length, next, data, alloc, op, pre, valid, twice
vars == <<head, length, next, data, alloc, op, pre, valid, twice>>

\* The list object and the node memory as one value.
Heap == [head |-> head, length |-> length, next |-> next, data |-> data, alloc |-> alloc]

\* ---- observation of a heap: the chain of nodes from head ----
RECURSIVE ChainFrom(_, _, _)
ChainFrom(h, cur, fuel) ==
    IF cur = NULL \/ fuel = 0 THEN <<>>
    ELSE <<cur>> \o ChainFrom(h, h.next[cur], fuel - 1)

Chain(h) == ChainFrom(h, h.head, Fuel)
Acyclic(h) == Len(Chain(h)) < Fuel
Elems(h) == [i \in 1..Len(Chain(h)) |-> h.data[Chain(h)[i]]]

\* ---- new Node(); node->data = data; node->next = nullptr ----
NewNode(h, n, v) ==
    [h EXCEPT !.alloc = @ \cup {n}, !.data[n] = v, !.next[n] = NULL]

\* ---- delete p (delete nullptr does nothing) ----
\* Node is declared in LinkedList.h; it is taken to be the plain pair of
\* data and next that the .cpp file uses, so that delete releases the one
\* node.  The fields of a released node are cleared: nothing reads them.
DeleteNode(h, p) ==
    IF p = NULL THEN h
    ELSE [h EXCEPT !.alloc = @ \ {p}, !.data[p] = 0, !.next[p] = NULL]

\* ---- LinkedList::LinkedList ----
Constructor ==
    [head |-> NULL, length |-> 0, next |-> [n \in Nodes |-> NULL],
     data |-> [n \in Nodes |-> 0], alloc |-> {}]

\* Variant of InsertFront that leaves node->next null instead of head.
InsertFrontOp_NoLink(h, n, v) ==
    LET h0 == NewNode(h, n, v)
    IN  {[h |-> [h0 EXCEPT !.head = n, !.length = @ + 1], outcome |-> "ok"]}

\* ---- LinkedList::InsertFront ----
InsertFrontOp(h, n, v) ==
    LET h0 == [h EXCEPT !.alloc = @ \cup {n}, !.data[n] = v, !.next[n] = h.head]
    IN  {[h |-> [h0 EXCEPT !.head = n, !.length = @ + 1], outcome |-> "ok"]}

\* ---- LinkedList::InsertBack ----
\* while (current->next != nullptr) current = current->next;
RECURSIVE FindLast(_, _, _)
FindLast(h, current, fuel) ==
    IF h.next[current] = NULL THEN [node |-> current, done |-> TRUE]
    ELSE IF fuel = 0 THEN [node |-> current, done |-> FALSE]
    ELSE FindLast(h, h.next[current], fuel - 1)

\* Variant of InsertBack that attaches to the first node without walking.
InsertBackOp_NoWalk(h, n, v) ==
    LET h0 == NewNode(h, n, v)
    IN  IF h0.head = NULL
        THEN {[h |-> [h0 EXCEPT !.head = n, !.length = @ + 1], outcome |-> "ok"]}
        ELSE {[h |-> [h0 EXCEPT !.next[h0.head] = n, !.length = @ + 1],
               outcome |-> "ok"]}

InsertBackOp(h, n, v) ==
    LET h0 == NewNode(h, n, v)
    IN  IF h0.head = NULL
        THEN {[h |-> [h0 EXCEPT !.head = n, !.length = @ + 1], outcome |-> "ok"]}
        ELSE LET w == FindLast(h0, h0.head, Fuel)
             IN  IF w.done
                 THEN {[h |-> [h0 EXCEPT !.next[w.node] = n, !.length = @ + 1],
                        outcome |-> "ok"]}
                 ELSE {[h |-> h0, outcome |-> "hang"]}

\* ---- for (int i = 0; i < index - 2; i++) current = current->next; ----
\* Advance: the walk up to the first dereference of nullptr.
RECURSIVE Advance(_, _, _)
Advance(h, current, k) ==
    IF k <= 0 THEN [node |-> current, fault |-> FALSE]
    ELSE IF current = NULL THEN [node |-> NULL, fault |-> TRUE]
    ELSE Advance(h, h.next[current], k - 1)

\* AdvanceUB: where the walk can end when a read through nullptr goes through.
RECURSIVE AdvanceUB(_, _, _)
AdvanceUB(h, current, k) ==
    IF k <= 0 THEN {current}
    ELSE IF current = NULL
         THEN UNION {AdvanceUB(h, g, k - 1) : g \in h.alloc \cup {NULL}}
         ELSE AdvanceUB(h, h.next[current], k - 1)

\* Variant of InsertAt whose loop runs to index - 1 instead of index - 2.
InsertAtOp_OffByOne(h, n, v, index) ==
    LET h0 == NewNode(h, n, v)
    IN  IF index = 1
        THEN {[h |-> [h0 EXCEPT !.next[n] = h0.head, !.head = n], outcome |-> "ok"]}
        ELSE LET w == Advance(h0, h0.head, index - 1)
             IN  IF ~w.fault /\ w.node # NULL
                 THEN {[h |-> [h0 EXCEPT !.next[n] = h0.next[w.node],
                                         !.next[w.node] = n,
                                         !.length = @ + 1],
                        outcome |-> "ok"]}
                 ELSE {[h |-> h0, outcome |-> "segv"]}

\* ---- LinkedList::InsertAt ----
InsertAtOp(h, n, v, index) ==
    LET h0 == NewNode(h, n, v)
    IN  IF index = 1
        THEN {[h |-> [h0 EXCEPT !.next[n] = h0.head, !.head = n], outcome |-> "ok"]}
        ELSE LET w == Advance(h0, h0.head, index - 2)
             IN  IF ~w.fault /\ w.node # NULL
                 THEN {[h |-> [h0 EXCEPT !.next[n] = h0.next[w.node],
                                         !.next[w.node] = n,
                                         !.length = @ + 1],
                        outcome |-> "ok"]}
                 ELSE {[h |-> h0, outcome |-> "segv"]}
                      \cup
                      UNION {
                        IF c = NULL
                        THEN {[h |-> [h0 EXCEPT !.next[n] = g, !.length = @ + 1],
                               outcome |-> "garbage"] : g \in h0.alloc \cup {NULL}}
                        ELSE {[h |-> [h0 EXCEPT !.next[n] = h0.next[c],
                                                !.next[c] = n,
                                                !.length = @ + 1],
                               outcome |-> "garbage"]}
                        : c \in AdvanceUB(h0, h0.head, index - 2)}

\* ---- LinkedList::Delete ----
\* Node* next = current->next; current->next = next->next; delete next; length--
DeleteTail(h, current, outcome) ==
    IF current = NULL
    THEN \* both accesses through current are undefined: the read yields nx,
         \* the write is lost
         UNION {
           IF nx = NULL
           THEN {[h |-> [h EXCEPT !.length = @ - 1], outcome |-> "garbage"]}
           ELSE {[h |-> [DeleteNode(h, nx) EXCEPT !.length = @ - 1],
                  outcome |-> "garbage"]}
           : nx \in h.alloc \cup {NULL}}
    ELSE LET nx == h.next[current]
         IN  IF nx = NULL
             THEN {[h |-> [h EXCEPT !.next[current] = g, !.length = @ - 1],
                    outcome |-> "garbage"] : g \in h.alloc \cup {NULL}}
             ELSE {[h |-> [DeleteNode([h EXCEPT !.next[current] = h.next[nx]], nx)
                             EXCEPT !.length = @ - 1],
                    outcome |-> outcome]}

DeleteOp(h, index) ==
    IF index = 1
    THEN IF h.head = NULL
         THEN {[h |-> h, outcome |-> "segv"]}
              \cup {[h |-> [h EXCEPT !.head = g], outcome |-> "garbage"]
                      : g \in h.alloc \cup {NULL}}
         ELSE {[h |-> DeleteNode([h EXCEPT !.head = h.next[h.head]], h.head),
                outcome |-> "ok"]}
    ELSE LET w == Advance(h, h.head, index - 2)
         IN  IF ~w.fault /\ w.node # NULL /\ h.next[w.node] # NULL
             THEN DeleteTail(h, w.node, "ok")
             ELSE {[h |-> h, outcome |-> "segv"]}
                  \cup UNION {DeleteTail(h, c, "garbage")
                                : c \in AdvanceUB(h, h.head, index - 2)}

\* Variant of the Reverse loop that never advances previous.
RECURSIVE ReverseLoop_LosePrevious(_, _, _, _, _)
ReverseLoop_LosePrevious(h, previous, current, visited, fuel) ==
    IF current = NULL
    THEN [h |-> h, previous |-> previous, visited |-> visited, done |-> TRUE]
    ELSE IF fuel = 0
    THEN [h |-> h, previous |-> previous, visited |-> visited, done |-> FALSE]
    ELSE ReverseLoop_LosePrevious([h EXCEPT !.next[current] = previous], previous,
                                  h.next[current], Append(visited, current),
                                  fuel - 1)

\* ---- LinkedList::Reverse ----
RECURSIVE ReverseLoop(_, _, _, _, _)
ReverseLoop(h, previous, current, visited, fuel) ==
    IF current = NULL
    THEN [h |-> h, previous |-> previous, visited |-> visited, done |-> TRUE]
    ELSE IF fuel = 0
    THEN [h |-> h, previous |-> previous, visited |-> visited, done |-> FALSE]
    ELSE ReverseLoop([h EXCEPT !.next[current] = previous], current,
                     h.next[current], Append(visited, current), fuel - 1)

\* Variant of Reverse that does not store previous into head.
ReverseOp_KeepHead(h) ==
    LET r == ReverseLoop(h, NULL, h.head, <<>>, Fuel)
    IN  [h |-> r.h, outcome |-> IF r.done THEN "ok" ELSE "hang",
         visited |-> r.visited]

ReverseOp(h) ==
    LET r == ReverseLoop(h, NULL, h.head, <<>>, Fuel)
    IN  IF r.done
        THEN [h |-> [r.h EXCEPT !.head = r.previous], outcome |-> "ok",
              visited |-> r.visited]
        ELSE [h |-> r.h, outcome |-> "hang", visited |-> r.visited]

\* Variant of the Print loop that tests current->next and so skips the last.
RECURSIVE PrintLoop_SkipLast(_, _, _, _)
PrintLoop_SkipLast(h, current, out, fuel) ==
    IF current = NULL \/ h.next[current] = NULL THEN [out |-> out, done |-> TRUE]
    ELSE IF fuel = 0 THEN [out |-> out, done |-> FALSE]
    ELSE PrintLoop_SkipLast(h, h.next[current],
                            out \o <<ToString(h.data[current]), " ">>, fuel - 1)

\* ---- LinkedList::Print ----
RECURSIVE PrintLoop(_, _, _, _)
PrintLoop(h, current, out, fuel) ==
    IF current = NULL THEN [out |-> out, done |-> TRUE]
    ELSE IF fuel = 0 THEN [out |-> out, done |-> FALSE]
    ELSE PrintLoop(h, h.next[current],
                   out \o <<ToString(h.data[current]), " ">>, fuel - 1)

PrintOp(h) == PrintLoop(h, h.head, <<>>, Fuel)

\* ---- LinkedList::StartRecursionPrint / PrintRecursion ----
RECURSIVE StartRecursionPrint(_, _, _)
StartRecursionPrint(h, hd, fuel) ==
    IF hd = NULL THEN [out |-> <<>>, done |-> TRUE]
    ELSE IF fuel = 0 THEN [out |-> <<>>, done |-> FALSE]
    ELSE LET r == StartRecursionPrint(h, h.next[hd], fuel - 1)
         IN  [out |-> <<ToString(h.data[hd]), " ">> \o r.out, done |-> r.done]

PrintRecursionOp(h) == StartRecursionPrint(h, h.head, Fuel)

\* ---- LinkedList::GetLength ----
GetLengthOp(h) == h.length

\* ---- the state machine ----
Call(name, v, index, outcome, out, visited) ==
    [name |-> name, data |-> v, index |-> index, outcome |-> outcome,
     out |-> out, visited |-> visited]

Running == op.outcome = "ok"

NoPair == [set |-> FALSE, elems |-> <<>>, length |-> 0]

\* The documented index ranges, against the length the list reports.
InsertAtInRange(h, index) == 1 <= index /\ index <= GetLengthOp(h) + 1
DeleteInRange(h, index) == 1 <= index /\ index <= GetLengthOp(h)

Store(h) ==
    /\ head' = h.head
    /\ length' = h.length
    /\ next' = h.next
    /\ data' = h.data
    /\ alloc' = h.alloc

Init ==
    /\ head = Constructor.head
    /\ length = Constructor.length
    /\ next = Constructor.next
    /\ data = Constructor.data
    /\ alloc = Constructor.alloc
    /\ op = Call("LinkedList", 0, 0, "ok", <<>>, <<>>)
    /\ pre = Constructor
    /\ valid = TRUE
    /\ twice = NoPair

InsertFront ==
    /\ Running /\ length < MaxCount
    /\ \E v \in Data, n \in Nodes \ alloc :
         \E r \in InsertFrontOp(Heap, n, v) :
            /\ Store(r.h)
            /\ op' = Call("InsertFront", v, 0, r.outcome, <<>>, <<>>)
    /\ pre' = Heap
    /\ UNCHANGED valid
    /\ twice' = NoPair

InsertBack ==
    /\ Running /\ length < MaxCount
    /\ \E v \in Data, n \in Nodes \ alloc :
         \E r \in InsertBackOp(Heap, n, v) :
            /\ Store(r.h)
            /\ op' = Call("InsertBack", v, 0, r.outcome, <<>>, <<>>)
    /\ pre' = Heap
    /\ UNCHANGED valid
    /\ twice' = NoPair

InsertAt ==
    /\ Running /\ length < MaxCount
    /\ \E v \in Data, index \in Indices, n \in Nodes \ alloc :
         \E r \in InsertAtOp(Heap, n, v, index) :
            /\ Store(r.h)
            /\ op' = Call("InsertAt", v, index, r.outcome, <<>>, <<>>)
    /\ pre' = Heap
    /\ valid' = (valid /\ InsertAtInRange(Heap, op'.index))
    /\ twice' = NoPair

Delete ==
    /\ Running /\ length > -MaxCount
    /\ \E index \in Indices :
         \E r \in DeleteOp(Heap, index) :
            /\ Store(r.h)
            /\ op' = Call("Delete", 0, index, r.outcome, <<>>, <<>>)
    /\ pre' = Heap
    /\ valid' = (valid /\ DeleteInRange(Heap, op'.index))
    /\ twice' = NoPair

Reverse ==
    /\ Running
    /\ LET r == ReverseOp(Heap)
       IN  /\ Store(r.h)
           /\ op' = Call("Reverse", 0, 0, r.outcome, <<>>, r.visited)
    /\ pre' = Heap
    /\ UNCHANGED valid
    /\ twice' = IF op.name = "Reverse"
                THEN [set |-> TRUE, elems |-> Elems(pre), length |-> pre.length]
                ELSE NoPair

\* LinkedList::Print as a step (the name Print is taken by the TLC module)
PrintCall ==
    /\ Running
    /\ LET r == PrintOp(Heap)
       IN  op' = Call("Print", 0, 0, IF r.done THEN "ok" ELSE "hang", r.out, <<>>)
    /\ pre' = Heap
    /\ UNCHANGED valid
    /\ twice' = NoPair
    /\ UNCHANGED <<head, length, next, data, alloc>>

PrintRecursion ==
    /\ Running
    /\ LET r == PrintRecursionOp(Heap)
       IN  op' = Call("PrintRecursion", 0, 0, IF r.done THEN "ok" ELSE "hang",
                      r.out, <<>>)
    /\ pre' = Heap
    /\ UNCHANGED valid
    /\ twice' = NoPair
    /\ UNCHANGED <<head, length, next, data, alloc>>

GetLength ==
    /\ Running
    /\ op' = Call("GetLength", GetLengthOp(Heap), 0, "ok", <<>>, <<>>)
    /\ pre' = Heap
    /\ UNCHANGED valid
    /\ twice' = NoPair
    /\ UNCHANGED <<head, length, next, data, alloc>>

Next ==
    \/ InsertFront
    \/ InsertBack
    \/ InsertAt
    \/ Delete
    \/ Reverse
    \/ PrintCall
    \/ PrintRecursion
    \/ GetLength

Spec == Init /\ [][Next]_vars

TypeOK ==
    /\ head \in Ptr
    /\ length \in (-MaxCount - 1)..(MaxCount + 1)
    /\ next \in [Nodes -> Ptr]
    /\ alloc \subseteq Nodes
\* ---- vocabulary of the properties ----
Now == Elems(Heap)
Before == Elems(pre)
Count(h) == Len(Chain(h))

RECURSIVE Rev(_)
Rev(s) == IF s = <<>> THEN <<>> ELSE Append(Rev(Tail(s)), Head(s))

Inserted(s, v, i) == SubSeq(s, 1, i - 1) \o <<v>> \o SubSeq(s, i, Len(s))
Removed(s, i) == SubSeq(s, 1, i - 1) \o SubSeq(s, i + 1, Len(s))

\* The text a traversal of the values s must emit: each value, then a blank.
RECURSIVE Emitted(_)
Emitted(s) ==
    IF s = <<>> THEN <<>> ELSE <<ToString(Head(s)), " ">> \o Emitted(Tail(s))

\* C1: after any sequence of calls whose indices were all within the
\* documented range, GetLength() equals the number of nodes reachable from
\* head by following next links.
C1_LengthIsNodeCount ==
    (valid /\ Running) => GetLengthOp(Heap) = Count(Heap)

\* C2: InsertAt(v, i) with 1 <= i <= len(s)+1 on a list with elements s
\* gives s[1..i-1], v, s[i..len(s)].
C2_InsertAtPlacesValue ==
    (op.name = "InsertAt" /\ 1 <= op.index /\ op.index <= Len(Before) + 1)
        => /\ op.outcome = "ok"
           /\ Now = Inserted(Before, op.data, op.index)
           /\ Now[op.index] = op.data

C2_Witness ==
    /\ op.name = "InsertAt" /\ op.index = 2 /\ Len(Before) = 2
    /\ Before[1] # Before[2]
    /\ op.data = 9

C2_WitnessAppend ==
    op.name = "InsertAt" /\ op.index = Len(Before) + 1 /\ Len(Before) = 2

\* C3: Delete(i) with 1 <= i <= len(s) on a list with elements s gives s
\* without its i-th element, and length is decremented exactly once.
C3_DeleteRemovesAndDecrements ==
    (op.name = "Delete" /\ 1 <= op.index /\ op.index <= Len(Before))
        => /\ op.outcome = "ok"
           /\ Now = Removed(Before, op.index)
           /\ length = pre.length - 1

\* C4: InsertAt with index outside [1, length+1] and Delete with index
\* outside [1, length] fail with IndexOutOfRange, leave length and the
\* elements as they were, and dereference no null node.
C4_OutOfRangeRejected ==
    (\/ op.name = "InsertAt" /\ ~InsertAtInRange(pre, op.index)
     \/ op.name = "Delete" /\ ~DeleteInRange(pre, op.index))
        => /\ op.outcome = "IndexOutOfRange"
           /\ Now = Before
           /\ length = pre.length

\* C5: InsertFront(v) on a list with elements s gives v followed by s, and
\* length grows by exactly one.
C5_InsertFrontPrepends ==
    op.name = "InsertFront"
        => /\ op.outcome = "ok"
           /\ Now = <<op.data>> \o Before
           /\ length = pre.length + 1

C5_Witness ==
    op.name = "InsertFront" /\ Len(Before) = 2 /\ op.data # Before[1]

\* C6: InsertBack(v) on a list with elements s gives s followed by v, and
\* length grows by exactly one; on the empty list the new node is the head.
C6_InsertBackAppends ==
    op.name = "InsertBack"
        => /\ op.outcome = "ok"
           /\ Now = Append(Before, op.data)
           /\ length = pre.length + 1
           /\ (pre.head = NULL => head \in alloc \ pre.alloc)

C6_Witness ==
    op.name = "InsertBack" /\ Len(Before) = 2 /\ op.data # Before[2]

C6_WitnessEmpty ==
    op.name = "InsertBack" /\ Len(Before) = 0 /\ Len(Now) = 1

\* C7: two Reverse calls in succession restore the elements and leave
\* length as it was.
C7_ReverseTwiceRestores ==
    twice.set => Now = twice.elems /\ length = twice.length

C7_Witness ==
    twice.set /\ Len(Now) = 3 /\ Now # Rev(Now)

\* C8: InsertAt(v, 1) ends in the state InsertFront(v) ends in from the same
\* list: the same elements and the same length.
C8_InsertAtOneIsInsertFront ==
    (op.name = "InsertAt" /\ op.index = 1)
        => \A r \in InsertFrontOp(pre, head, op.data) :
              /\ Now = Elems(r.h)
              /\ length = r.h.length

\* C9: Print and PrintRecursion terminate, emit exactly the values from first
\* to last (so the same text, nothing for the empty list), and leave head,
\* every next link, every value and length unchanged.
C9_TraversalsAgreeAndPreserve ==
    op.name \in {"Print", "PrintRecursion"}
        => /\ op.outcome = "ok"
           /\ op.out = Emitted(Before)
           /\ PrintOp(pre).done /\ PrintRecursionOp(pre).done
           /\ PrintOp(pre).out = PrintRecursionOp(pre).out
           /\ Heap = pre

C9_Witness ==
    /\ op.name = "Print" /\ Len(Before) = 3 /\ Before[1] # Before[3]
    /\ Len(op.out) = 6

C9_WitnessRecursion ==
    /\ op.name = "PrintRecursion" /\ Len(Before) = 3 /\ Before[1] # Before[2]
    /\ Len(op.out) = 6

\* C10: Reverse terminates after visiting each node once and leaves exactly
\* the former elements in reverse order: the former last node is the head,
\* the former head has no successor, the nodes are the same, there is no
\* cycle and length is unchanged; on the empty list nothing changes.
C10_ReverseReverses ==
    op.name = "Reverse"
        => /\ op.outcome = "ok"
           /\ op.visited = Chain(pre)
           /\ Chain(Heap) = Rev(Chain(pre))
           /\ Now = Rev(Before)
           /\ Acyclic(Heap)
           /\ alloc = pre.alloc /\ data = pre.data
           /\ length = pre.length
           /\ (pre.head # NULL =>
                 /\ head = Chain(pre)[Count(pre)]
                 /\ next[pre.head] = NULL)
           /\ (pre.head = NULL => Heap = pre)

C10_Witness ==
    op.name = "Reverse" /\ Len(Before) = 3 /\ Before # Rev(Before)

C10_WitnessEmpty ==
    op.name = "Reverse" /\ pre.head = NULL /\ head = NULL
====
